---- MODULE Spec2Model ----
(***************************************************************************)
(* Vakio OpenAir integration: the MQTT transport session (MqttClient), the *)
(* Coordinator with its condition cache, and the fan entity                *)
(* (VakioOpenAirFan) that is reconciled against the cache.                 *)
(*                                                                         *)
(* Python values are tagged records, so that None, integers, strings and   *)
(* coroutine objects can be told apart the way the interpreter does.       *)
(* Strings are sequences of characters.                                    *)
(***************************************************************************)
EXTENDS Integers, Sequences, FiniteSets

\* ------------------------------------------------------------------ bounds
\* Length of the named speed list (the list itself is in const.py).
SpeedCount == 3
\* Inbound messages delivered in one behaviour.
MaxMessages == 2
\* subscribe() calls in one behaviour.
MaxSubscribes == 2
\* login() calls in one behaviour.
MaxLogins == 2

\* ----------------------------------------------------------- Python values
None == [t |-> "none"]
PyInt(i) == [t |-> "int", i |-> i]
PyStr(s) == [t |-> "str", s |-> s]
\* What calling an `async def` without awaiting it evaluates to: the body has
\* not run and never runs.
Coroutine(method) == [t |-> "coroutine", of |-> method]
\* A byte string (an MQTT payload).
Bytes(b) == [t |-> "bytes", b |-> b]

IsNone(v) == v.t = "none"
IsInt(v) == v.t = "int"

\* ------------------------------------------------------------ vakio.py 29-42
SPEED_ENDPOINT == <<"s", "p", "e", "e", "d">>
GATE_ENDPOINT == <<"g", "a", "t", "e">>
STATE_ENDPOINT == <<"s", "t", "a", "t", "e">>
WORKMODE_ENDPOINT == <<"w", "o", "r", "k", "m", "o", "d", "e">>
TEMP_ENDPOINT == <<"t", "e", "m", "p">>
HUD_ENDPOINT == <<"h", "u", "d">>
ENDPOINTS ==
  << SPEED_ENDPOINT, GATE_ENDPOINT, STATE_ENDPOINT, WORKMODE_ENDPOINT,
     TEMP_ENDPOINT, HUD_ENDPOINT >>
EndpointSet == {ENDPOINTS[i] : i \in 1..Len(ENDPOINTS)}

\* ------------------------------------------------------------------ const.py
OPENAIR_STATE_ON == <<"o", "n">>
OPENAIR_STATE_OFF == <<"o", "f", "f">>
OPENAIR_SPEED_LIST == [k \in 1..SpeedCount |-> k]
OPENAIR_SPEED_01 == OPENAIR_SPEED_LIST[1]

\* The configured base topic (data[CONF_TOPIC]); it may itself hold a "/".
CONF_TOPIC == <<"v", "/", "a">>

\* ------------------------------------------------------------ fan.py 43
Gate(n) == <<"G", "a", "t", "e", " ", n>>
PRESET_MODS ==
  << <<"O", "f", "f">>, Gate("1"), Gate("2"), Gate("3"), Gate("4"),
     <<"S", "u", "p", "e", "r", " ", "A", "u", "t", "o">> >>

\* ------------------------------------------- homeassistant.util.percentage
\* ordered_list_item_to_percentage(ordered_list, item)
IndexOf(list, item) == CHOOSE k \in 1..Len(list) : list[k] = item
ordered_list_item_to_percentage(list, item) ==
  (IndexOf(list, item) * 100) \div Len(list)

\* The last item whatever the percentage.
last_list_item(list, pct) == list[Len(list)]

\* percentage_to_ordered_list_item(ordered_list, percentage): the first item
\* whose upper bound is not below the percentage, the last item otherwise.
percentage_to_ordered_list_item(list, pct) ==
  LET fits == {k \in 1..Len(list) : pct <= (k * 100) \div Len(list)}
  IN  IF fits = {} THEN list[Len(list)]
      ELSE list[CHOOSE k \in fits : \A j \in fits : k <= j]

\* list[index] as Python evaluates it: negative indices count from the end,
\* anything outside -len..len-1 raises IndexError.
PyIndexOk(list, index) == index >= -Len(list) /\ index <= Len(list) - 1
PyIndex(list, index) ==
  IF index >= 0 THEN list[index + 1] ELSE list[Len(list) + index + 1]

\* ------------------------------------------------- vakio.py 74-85, pieces
\* str.split(message.topic, "/")[-1]: what follows the last "/" of the topic,
\* the whole topic when it holds none.
RECURSIVE LastSegment(_)
LastSegment(topic) ==
  IF topic = <<>> THEN <<>>
  ELSE IF topic[Len(topic)] = "/" THEN <<>>
  ELSE LastSegment(SubSeq(topic, 1, Len(topic) - 1)) \o <<topic[Len(topic)]>>

\* f"{self.data[CONF_TOPIC]}/{endpoint}"
TopicOf(endpoint) == CONF_TOPIC \o <<"/">> \o endpoint

\* message.payload.decode(): the payload is a byte string; the byte "xff" never
\* occurs in UTF-8, and decoding a payload that holds it raises
\* UnicodeDecodeError.
DecodeOk(payload) == \A k \in 1..Len(payload) : payload[k] # "xff"
Decode(payload) == payload

\* int(value) on a str: surrounding whitespace is stripped, one sign is
\* allowed, the rest must be one or more decimal digits; ValueError otherwise.
Digits == <<"0", "1", "2", "3", "4", "5", "6", "7", "8", "9">>
IsDigit(c) == \E k \in 1..Len(Digits) : Digits[k] = c
DigitValue(c) == (CHOOSE k \in 1..Len(Digits) : Digits[k] = c) - 1
IsSpace(c) == c \in {" ", "\n", "\t", "\r"}
RECURSIVE LStrip(_)
LStrip(s) == IF s # <<>> /\ IsSpace(s[1]) THEN LStrip(Tail(s)) ELSE s
RECURSIVE RStrip(_)
RStrip(s) ==
  IF s # <<>> /\ IsSpace(s[Len(s)]) THEN RStrip(SubSeq(s, 1, Len(s) - 1)) ELSE s
RECURSIVE NumberOf(_)
NumberOf(ds) ==
  IF ds = <<>> THEN 0
  ELSE NumberOf(SubSeq(ds, 1, Len(ds) - 1)) * 10 + DigitValue(ds[Len(ds)])
IntParse(text) ==
  LET body == RStrip(LStrip(text))
      signed == body # <<>> /\ body[1] \in {"-", "+"}
      ds == IF signed THEN Tail(body) ELSE body
      ok == ds # <<>> /\ \A k \in 1..Len(ds) : IsDigit(ds[k])
  IN  [ok |-> ok,
       i |-> IF ~ok THEN 0
             ELSE IF signed /\ body[1] = "-" THEN 0 - NumberOf(ds)
             ELSE NumberOf(ds)]

\* Lines 78-83: the value on_message stores for a payload that decodes.
ParseValue(payload) ==
  LET value == Decode(payload)
      parsed == IntParse(value)
  IN  IF parsed.ok THEN PyInt(parsed.i) ELSE PyStr(value)

\* ------------------------------------------------------ fan.py, the entity
\* self.coordinator.speed() as update_speed writes it (fan.py 220): speed is an
\* The call awaited: the local holds the cached speed.
awaited_speed(condition) == condition[SPEED_ENDPOINT]

\* `async def` (vakio.py 201) and the call is not awaited, so the local holds
\* the coroutine object whatever the cache holds.
speed_call(condition) == Coroutine("speed")

\* The publishes a coroutine call makes: those of its body when it is awaited,
\* none when the coroutine object is dropped.
PublishesOf(awaited, endpoint, value) ==
  IF awaited THEN {<<endpoint, value>>} ELSE {}

\* `speed > len(OPENAIR_SPEED_LIST)`: defined between integers only.
GtRaises(v) == ~IsInt(v)

\* update_speed (fan.py 215-239) on the value of the local `speed` and the
\* entity percentage: [raised, percentage, ret].
update_speed(speed, pct) ==
  IF ~IsNone(speed) /\ GtRaises(speed)
  THEN [raised |-> "TypeError", percentage |-> pct, ret |-> FALSE]
  ELSE IF (IsNone(speed) \/ speed.i > Len(OPENAIR_SPEED_LIST) \/ speed.i = 0)
          /\ ~IsNone(pct)
  THEN [raised |-> "none", percentage |-> None, ret |-> TRUE]
  ELSE IF IsNone(speed)
  THEN [raised |-> "none", percentage |-> pct, ret |-> FALSE]
  ELSE IF ~PyIndexOk(OPENAIR_SPEED_LIST, speed.i - 1)
  THEN [raised |-> "IndexError", percentage |-> pct, ret |-> FALSE]
  ELSE LET named_speed == PyIndex(OPENAIR_SPEED_LIST, speed.i - 1)
           new_speed_percentage ==
             PyInt(ordered_list_item_to_percentage(OPENAIR_SPEED_LIST, named_speed))
       IN  IF pct # new_speed_percentage
           THEN [raised |-> "none", percentage |-> new_speed_percentage, ret |-> TRUE]
           ELSE [raised |-> "none", percentage |-> pct, ret |-> FALSE]

\* update_preset_mode (fan.py 241-270): the body is commented out.
update_preset_mode == TRUE

\* Everything but the off sentinel taken for "on".
not_off(condition) == condition[STATE_ENDPOINT] # PyStr(OPENAIR_STATE_OFF)

\* Coordinator.is_on (vakio.py 259-262) on the cache.
is_on(condition) == condition[STATE_ENDPOINT] = PyStr(OPENAIR_STATE_ON)

\* update_on_off (fan.py 272-294): [percentage, preset_mode, ret].
update_on_off(on, pct, preset) ==
  IF ~on
  THEN IF ~IsNone(pct) /\ pct.i > 0
       THEN [percentage |-> PyInt(0), preset_mode |-> preset, ret |-> TRUE]
       ELSE [percentage |-> pct, preset_mode |-> preset, ret |-> FALSE]
  ELSE IF IsNone(pct) \/ pct = PyInt(0)
       THEN [percentage |->
               IF IsNone(pct)
               THEN PyInt(ordered_list_item_to_percentage(OPENAIR_SPEED_LIST,
                                                          OPENAIR_SPEED_01))
               ELSE pct,
             preset_mode |->
               IF preset = PyStr(OPENAIR_STATE_OFF) THEN None ELSE preset,
             ret |-> TRUE]
       ELSE [percentage |-> pct, preset_mode |-> preset, ret |-> FALSE]

\* What a handler of the entity leaves behind: the entity fields, the
\* exception it raised ("none" when it returned), the number of
\* schedule_update_ha_state calls, the publishes that reached the session, and
\* how its update_speed call ended (NotRun when it made none).
NotRun == [raised |-> "not run"]
Outcome(pct, preset, raised, notified, pubs, us) ==
  [percentage |-> pct, preset_mode |-> preset, raised |-> raised,
   notified |-> notified, pubs |-> pubs,
   update_speed |-> IF us = NotRun THEN NotRun
                    ELSE [raised |-> us.raised, percentage |-> us.percentage]]

\* VakioOpenAirFan._async_update (fan.py 199-213).
fan_async_update(condition, pct, preset, pubs) ==
  LET s == update_speed(speed_call(condition), pct)
  IN  IF s.raised # "none"
      THEN Outcome(s.percentage, preset, s.raised, 0, pubs, s)
      ELSE LET p == update_preset_mode
               o == update_on_off(is_on(condition), s.percentage, preset)
               is_update == s.ret \/ p \/ o.ret
           IN  Outcome(o.percentage, o.preset_mode, "none",
                       IF is_update THEN 1 ELSE 0, pubs, s)

\* async_set_percentage (fan.py 139-154); turn_off, turn_on and speed are
\* called without await.
async_set_percentage(condition, pct, preset, p) ==
  IF p = 0
  THEN Outcome(PyInt(p), preset, "none", 1,
               PublishesOf(FALSE, STATE_ENDPOINT, PyStr(OPENAIR_STATE_OFF)),
               NotRun)
  ELSE LET speed == percentage_to_ordered_list_item(OPENAIR_SPEED_LIST, p)
           pubs == PublishesOf(FALSE, STATE_ENDPOINT, PyStr(OPENAIR_STATE_ON))
                   \cup PublishesOf(FALSE, SPEED_ENDPOINT, PyInt(speed))
           s == update_speed(speed_call(condition), PyInt(p))
       IN  IF s.raised # "none"
           THEN Outcome(s.percentage, preset, s.raised, 0, pubs, s)
           ELSE Outcome(s.percentage, preset, "none",
                        IF s.ret THEN 1 ELSE 0, pubs, s)

\* async_set_preset_mode (fan.py 156-173).
InPresetModes(mode) == \E k \in 1..Len(PRESET_MODS) : PRESET_MODS[k] = mode
\* The mode stored before it is looked up in the list.
store_then_validate(pct, preset, mode) ==
  IF ~InPresetModes(mode)
  THEN Outcome(pct, PyStr(mode), "ValueError", 0, {}, NotRun)
  ELSE Outcome(pct, PyStr(mode), "none", 1, {}, NotRun)
async_set_preset_mode(pct, preset, mode) ==
  IF ~InPresetModes(mode)
  THEN Outcome(pct, preset, "ValueError", 0, {}, NotRun)
  ELSE IF PyStr(mode) = PyStr(OPENAIR_STATE_OFF)
  THEN Outcome(pct, PyStr(mode), "none", 0, {}, NotRun)
  ELSE Outcome(pct, PyStr(mode), "none", 1, {}, NotRun)

\* async_turn_on (fan.py 175-192); arg is the percentage argument or None.
async_turn_on(pct, preset, arg) ==
  LET new_speed ==
        IF ~IsNone(arg)
        THEN percentage_to_ordered_list_item(OPENAIR_SPEED_LIST, arg.i)
        ELSE OPENAIR_SPEED_01
  IN  Outcome(pct, preset, "none", 1,
              PublishesOf(FALSE, STATE_ENDPOINT, PyStr(OPENAIR_STATE_ON))
              \cup PublishesOf(FALSE, SPEED_ENDPOINT, PyInt(new_speed)),
              NotRun)

\* async_turn_off (fan.py 194-197).
async_turn_off(condition, pct, preset) ==
  fan_async_update(condition, pct, preset,
                   PublishesOf(FALSE, STATE_ENDPOINT, PyStr(OPENAIR_STATE_OFF)))

\* The flag set only when the connect succeeded.
logged_in_if_connected(status) == status
\* `self.is_logged_in = True` (vakio.py 186), whatever `status` holds.
logged_in_after_login(status) == TRUE

\* ---------------------------------------------------- vakio.py, MqttClient
\* The ways the blocking client connect ends: it returns, or it raises one of
\* the socket errors, all of them subclasses of OSError.
ConnectOutcomes == {"ok", "ConnectionRefusedError", "timeout", "gaierror"}
\* A handler that catches one of them only.
OnlyConnectionRefused(kind) == kind = "ConnectionRefusedError"
IsOSError(kind) == kind \in {"ConnectionRefusedError", "timeout", "gaierror"}

\* MqttClient.connect (vakio.py 93-104) on the way the client connect ended:
\* [ret, raised, loop_start].
connect(kind) ==
  IF kind = "ok" THEN [ret |-> TRUE, raised |-> "none", loop_start |-> TRUE]
  ELSE IF IsOSError(kind)
  THEN [ret |-> FALSE, raised |-> "none", loop_start |-> FALSE]
  ELSE [ret |-> FALSE, raised |-> kind, loop_start |-> FALSE]

\* The result code the client's publish and subscribe return: they do not
\* raise on a missing connection, they report it.
ClientRc(connected) ==
  IF connected THEN "MQTT_ERR_SUCCESS" ELSE "MQTT_ERR_NO_CONN"

\* MqttClient.publish (vakio.py 145-155): msg_info is not looked at.
publish(rc) == [ret |-> TRUE, raised |-> "none"]

\* `async with self._paho_lock`: the lock is taken only when nobody holds it.
NoTask == "nobody"
\* A lock that is handed out while held.
LockAlwaysFree(lock) == TRUE
LockFree(lock) == lock = NoTask

\* self._coordinator.condition[key] = value (vakio.py 85): a dict store.
StoreCondition(cond, key, value) ==
  [k \in (DOMAIN cond) \cup {key} |-> IF k = key THEN value ELSE cond[k]]

\* The key on_message stores under (vakio.py 76).
\* The topic stored under without the split.
WholeTopic(topic) == topic
MessageKey(topic) == LastSegment(topic)

\* Every subscription dropped, whatever the topic.
UnsubscribeAll(subs, topic) == {}

\* self._client.unsubscribe(topic=message.topic) (vakio.py 77).
Unsubscribe(subs, topic) == {e \in subs : TopicOf(e) # topic}

\* --------------------------------------------------- vakio.py, Coordinator
\* A setter that stores the commanded value in the cache at once.
optimistic_cache(cond, endpoint, value) == StoreCondition(cond, endpoint, value)
\* The cache after speed/gate/state/workmode(value) (vakio.py 201-227): the
\* setter forms the topic and publishes, the cache is not stored into.
setter_cache(cond, endpoint, value) == cond

\* `if self.is_logged_in is True: return True` (vakio.py 179-180).
\* The early return left out.
NeverLoggedIn(flag) == FALSE
AlreadyLoggedIn(flag) == flag = TRUE

\* --------------------------------------------------------------- inputs
Payloads ==
  { <<"1">>, <<"0">>, <<"-", "1">>, <<"9">>, OPENAIR_STATE_ON,
    OPENAIR_STATE_OFF, <<"O", "N">>, <<"xff">> }
\* The payloads and endpoints of the specifications that do not look at the
\* values the cache holds.
FewPayloads == {<<"1">>, OPENAIR_STATE_OFF}
TimerPayloads == {<<"1">>, <<"2">>, OPENAIR_STATE_ON}
CachePayloads == {<<"-", "1">>, OPENAIR_STATE_ON, <<"xff">>}
CacheEndpoints == {SPEED_ENDPOINT, STATE_ENDPOINT, HUD_ENDPOINT}
FanEndpoints == {SPEED_ENDPOINT, STATE_ENDPOINT}
SetterInputs ==
  { <<SPEED_ENDPOINT, PyInt(1)>>, <<STATE_ENDPOINT, PyStr(OPENAIR_STATE_OFF)>> }
Percentages == 0..100
PercentInputs == {0, 50, 100}
TurnOnInputs == {None, PyInt(50)}
PresetInputs == {PRESET_MODS[1], PRESET_MODS[2], OPENAIR_STATE_OFF}

Tasks == {"login", "tick", "setter", "disc"}
Slots == {1, 2}
IdleHandler == [pc |-> "idle", topic |-> <<>>, payload |-> <<>>, key |-> <<>>]
NoLast ==
  [op |-> "none", arg |-> None, raised |-> "none", notified |-> 0, pubs |-> {},
   update_speed |-> NotRun]

VARIABLES
  condition,         \* Coordinator.condition
  is_logged_in,      \* Coordinator.is_logged_in
  subscribes_count,  \* MqttClient.subscribes_count
  paho_lock,         \* the task holding MqttClient._paho_lock
  loop_started,      \* the client's receive loop runs
  connected,         \* the client holds a connection
  subscribed,        \* the endpoints whose topic the client is subscribed to
  published,         \* the publishes the client accepted
  pc,                \* where each task of the event loop stands
  status,            \* async_login's local `status`
  req,               \* the <<endpoint, value>> of the setter in progress
  handler,           \* the on_message invocations of the client's thread
  percentage,        \* VakioOpenAirFan._percentage
  preset_mode,       \* VakioOpenAirFan._preset_mode
  msgs,              \* inbound messages delivered so far
  log,               \* connect/subscribe/publish/login calls and their results
  handled,           \* per endpoint, the payload of the last message handled
  delivered,         \* the <<endpoint, payload>> messages received so far
  read_log,          \* the last getter call: endpoint and value returned
  last,              \* the last handler of the entity and what it did
  on_message_raised, \* the exception the last on_message call ended with
  is_on_log,         \* the last is_on() call: the cached state and the result
  mapping            \* the last percentage sent through the speed mappings

vars ==
  << condition, is_logged_in, subscribes_count, paho_lock, loop_started,
     connected, subscribed, published, pc, status, req, handler, percentage,
     preset_mode, msgs, log, handled, delivered, read_log, last,
     on_message_raised, is_on_log, mapping >>

\* What only the calls that record into them change.
probeVars == << is_on_log, mapping >>
auxVars == << on_message_raised, probeVars >>

sessionVars ==
  << is_logged_in, subscribes_count, paho_lock, loop_started, connected,
     published, pc, status, req, log >>
entityVars == << percentage, preset_mode, last >>
cacheVars == << condition, subscribed, handler, msgs, handled, delivered >>

NoIsOn == [called |-> FALSE, state |-> None, ret |-> FALSE]
NoMapping == [applied |-> FALSE, percentage |-> 0, speed |-> 0, back |-> 0]

NoLog ==
  [connect_calls |-> 0, login_subscribes |-> 0, login_returns |-> 0,
   login_result |-> FALSE, connect_kind |-> "none", connect_ret |-> FALSE,
   connect_raised |-> "none", sub_rc |-> "none", sub_raised |-> "none",
   pub_rc |-> "none", pub_ret |-> FALSE, pub_raised |-> "none",
   setter_ret |-> FALSE]

\* Coordinator.__init__ (vakio.py 161-176), MqttClient.__init__ (48-72) and
\* VakioOpenAirFanBase.__init__ (fan.py 72-98).
Init ==
  /\ condition = [e \in EndpointSet |-> None]
  /\ is_logged_in = FALSE
  /\ subscribes_count = 0
  /\ paho_lock = NoTask
  /\ loop_started = FALSE
  /\ connected = FALSE
  /\ subscribed = {}
  /\ published = {}
  /\ pc = [t \in Tasks |-> "idle"]
  /\ status = FALSE
  /\ req = <<>>
  /\ handler = [h \in Slots |-> IdleHandler]
  /\ percentage = None
  /\ preset_mode = None
  /\ msgs = 0
  /\ log = NoLog
  /\ handled = [e \in EndpointSet |-> None]
  /\ delivered = {}
  /\ read_log = [endpoint |-> <<>>, value |-> None]
  /\ last = NoLast
  /\ on_message_raised = "none"
  /\ is_on_log = NoIsOn
  /\ mapping = NoMapping

\* ------------------------------------------------ Coordinator.async_login
\* vakio.py 179-180: a call on a logged-in Coordinator returns True at once.
LoginReturn ==
  /\ pc["login"] = "idle"
  /\ log.login_returns < MaxLogins
  /\ AlreadyLoggedIn(is_logged_in)
  /\ log' = [log EXCEPT !.login_returns = @ + 1, !.login_result = TRUE]
  /\ UNCHANGED << condition, is_logged_in, subscribes_count, paho_lock,
                  loop_started, connected, subscribed, published, pc, status,
                  req, handler, percentage, preset_mode, msgs, handled,
                  delivered, read_log, last, auxVars >>

\* vakio.py 182, 96-98: the client connect is handed to the executor.
LoginStart ==
  /\ pc["login"] = "idle"
  /\ log.login_returns < MaxLogins
  /\ ~AlreadyLoggedIn(is_logged_in)
  /\ pc' = [pc EXCEPT !["login"] = "connect"]
  /\ UNCHANGED << condition, is_logged_in, subscribes_count, paho_lock,
                  loop_started, connected, subscribed, published, status, req,
                  handler, percentage, preset_mode, msgs, log, handled,
                  delivered, read_log, last, auxVars >>

\* vakio.py 95-104, 182-183, 129: the client connect ends, connect() returns
\* and subscribe() is entered.
LoginConnect(kind) ==
  /\ pc["login"] = "connect"
  /\ LET r == connect(kind)
     IN  /\ log' = [log EXCEPT !.connect_calls = @ + 1,
                               !.connect_kind = kind,
                               !.connect_ret = r.ret,
                               !.connect_raised = r.raised,
                               !.login_subscribes =
                                 IF r.raised = "none" THEN @ + 1 ELSE @]
         /\ connected' = (connected \/ kind = "ok")
         /\ loop_started' = (loop_started \/ r.loop_start)
         /\ status' = r.ret
         /\ IF r.raised = "none"
            THEN /\ subscribes_count' = subscribes_count + 1
                 /\ pc' = [pc EXCEPT !["login"] = "sub_wait"]
            ELSE /\ subscribes_count' = subscribes_count
                 /\ pc' = [pc EXCEPT !["login"] = "idle"]
  /\ UNCHANGED << condition, is_logged_in, paho_lock, subscribed, published,
                  req, handler, percentage, preset_mode, msgs, handled,
                  delivered, read_log, last, auxVars >>

\* ------------------------------------------------- MqttClient.subscribe
\* vakio.py 130-131: the lock is taken and the client subscribe is handed to
\* the executor.
SubAcquire(t) ==
  /\ pc[t] = "sub_wait"
  /\ LockFree(paho_lock)
  /\ paho_lock' = t
  /\ pc' = [pc EXCEPT ![t] = "sub_job"]
  /\ UNCHANGED << condition, is_logged_in, subscribes_count, loop_started,
                  connected, subscribed, published, status, req, handler,
                  percentage, preset_mode, msgs, log, handled, delivered,
                  read_log, last, auxVars >>

\* vakio.py 131-136: the client subscribe, one request for all endpoints,
\* returns and the lock is released.
SubscribeDone(t) ==
  /\ pc[t] = "sub_job"
  /\ paho_lock' = NoTask
  /\ subscribed' =
       IF ClientRc(connected) = "MQTT_ERR_SUCCESS" THEN EndpointSet
       ELSE subscribed
  /\ pc' = [pc EXCEPT ![t] = "idle"]

\* vakio.py 183-187: the initial subscribe returns and async_login ends.
LoginSubDone ==
  /\ SubscribeDone("login")
  /\ is_logged_in' = logged_in_after_login(status)
  /\ log' = [log EXCEPT !.sub_rc = ClientRc(connected),
                        !.login_returns = @ + 1,
                        !.login_result = status]
  /\ UNCHANGED << condition, subscribes_count, loop_started, connected,
                  published, status, req, handler, percentage, preset_mode,
                  msgs, handled, delivered, read_log, last, auxVars >>

\* ------------------------------------------ Coordinator._async_update
\* fan.py 64, vakio.py 194-199, 138-142, 129: the periodic callback enters
\* get_condition and subscribe.
TickStart ==
  /\ pc["tick"] = "idle"
  /\ subscribes_count < MaxSubscribes
  /\ subscribes_count' = subscribes_count + 1
  /\ pc' = [pc EXCEPT !["tick"] = "sub_wait"]
  /\ UNCHANGED << condition, is_logged_in, paho_lock, loop_started, connected,
                  subscribed, published, status, req, handler, percentage,
                  preset_mode, msgs, log, handled, delivered, read_log, last, auxVars >>

TickSubDone ==
  /\ SubscribeDone("tick")
  /\ log' = [log EXCEPT !.sub_rc = ClientRc(connected)]
  /\ UNCHANGED << condition, is_logged_in, subscribes_count, loop_started,
                  connected, published, status, req, handler, percentage,
                  preset_mode, msgs, handled, delivered, read_log, last, auxVars >>

\* --------------------------- Coordinator.speed/gate/state/workmode(value)
\* vakio.py 201-227, 251-257, 147-150: an awaited setter enters publish.
SetterCall(endpoint, value) ==
  /\ pc["setter"] = "idle"
  /\ req' = <<endpoint, value>>
  /\ pc' = [pc EXCEPT !["setter"] = "pub_wait"]
  /\ condition' = setter_cache(condition, endpoint, value)
  /\ UNCHANGED << is_logged_in, subscribes_count, paho_lock,
                  loop_started, connected, subscribed, published, status,
                  handler, percentage, preset_mode, msgs, log, handled,
                  delivered, read_log, last, auxVars >>

\* vakio.py 150-151: the lock is taken and the client publish is handed to
\* the executor.
PubAcquire ==
  /\ pc["setter"] = "pub_wait"
  /\ LockFree(paho_lock)
  /\ paho_lock' = "setter"
  /\ pc' = [pc EXCEPT !["setter"] = "pub_job"]
  /\ UNCHANGED << condition, is_logged_in, subscribes_count, loop_started,
                  connected, subscribed, published, status, req, handler,
                  percentage, preset_mode, msgs, log, handled, delivered,
                  read_log, last, auxVars >>

\* vakio.py 151-155: the client publish returns, the lock is released and
\* publish() and the setter return.
PubDone ==
  /\ pc["setter"] = "pub_job"
  /\ LET rc == ClientRc(connected)
         r == publish(rc)
     IN  /\ published' =
              IF rc = "MQTT_ERR_SUCCESS" THEN published \cup {req}
              ELSE published
         /\ log' = [log EXCEPT !.pub_rc = rc, !.pub_ret = r.ret,
                               !.pub_raised = r.raised, !.setter_ret = r.ret]
  /\ paho_lock' = NoTask
  /\ pc' = [pc EXCEPT !["setter"] = "idle"]
  /\ UNCHANGED << condition, is_logged_in, subscribes_count, loop_started,
                  connected, subscribed, status, req, handler, percentage,
                  preset_mode, msgs, handled, delivered, read_log, last, auxVars >>

\* ------------------------------------------------- MqttClient.disconnect
DiscCall ==
  /\ pc["disc"] = "idle"
  /\ pc' = [pc EXCEPT !["disc"] = "disc_wait"]
  /\ UNCHANGED << condition, is_logged_in, subscribes_count, paho_lock,
                  loop_started, connected, subscribed, published, status, req,
                  handler, percentage, preset_mode, msgs, log, handled,
                  delivered, read_log, last, auxVars >>

\* vakio.py 113-115: the lock is taken and loop_stop is handed to the executor.
DiscAcquire ==
  /\ pc["disc"] = "disc_wait"
  /\ LockFree(paho_lock)
  /\ paho_lock' = "disc"
  /\ pc' = [pc EXCEPT !["disc"] = "disc_job"]
  /\ UNCHANGED << condition, is_logged_in, subscribes_count, loop_started,
                  connected, subscribed, published, status, req, handler,
                  percentage, preset_mode, msgs, log, handled, delivered,
                  read_log, last, auxVars >>

\* vakio.py 115-116: the loop has stopped, the client disconnects and the lock
\* is released.
DiscDone ==
  /\ pc["disc"] = "disc_job"
  /\ loop_started' = FALSE
  /\ connected' = FALSE
  /\ subscribed' = {}
  /\ paho_lock' = NoTask
  /\ pc' = [pc EXCEPT !["disc"] = "idle"]
  /\ UNCHANGED << condition, is_logged_in, subscribes_count, published, status,
                  req, handler, percentage, preset_mode, msgs, log, handled,
                  delivered, read_log, last, auxVars >>

\* ------------------------------------------------- MqttClient.on_message
\* A message on a subscribed topic arrives and on_message is called with it, in
\* the first free slot; line 76 computes the key.
Receive(h, endpoint, payload) ==
  /\ handler[h].pc = "idle"
  /\ \A g \in Slots : g < h => handler[g].pc # "idle"
  /\ loop_started
  /\ endpoint \in subscribed
  /\ msgs < MaxMessages
  /\ \A g \in Slots : handler[g].pc = "idle" \/ handler[g].topic # TopicOf(endpoint)
  /\ msgs' = msgs + 1
  /\ delivered' = delivered \cup {<<endpoint, payload>>}
  /\ handler' = [handler EXCEPT ![h] =
                   [pc |-> "unsubscribe", topic |-> TopicOf(endpoint),
                    payload |-> payload,
                    key |-> MessageKey(TopicOf(endpoint))]]
  /\ UNCHANGED << condition, subscribed, handled, read_log, auxVars >>
  /\ UNCHANGED sessionVars
  /\ UNCHANGED entityVars

\* vakio.py 77.
HandlerUnsubscribe(h) ==
  /\ handler[h].pc = "unsubscribe"
  /\ subscribed' = Unsubscribe(subscribed, handler[h].topic)
  /\ handler' = [handler EXCEPT ![h].pc = "decode"]
  /\ UNCHANGED << condition, msgs, handled, delivered, read_log, auxVars >>
  /\ UNCHANGED sessionVars
  /\ UNCHANGED entityVars

\* vakio.py 78: decode raises on a payload that is not UTF-8 and on_message
\* ends there.
HandlerDecodeError(h) ==
  /\ handler[h].pc = "decode"
  /\ ~DecodeOk(handler[h].payload)
  /\ handler' = [handler EXCEPT ![h] = IdleHandler]
  /\ on_message_raised' = "UnicodeDecodeError"
  /\ UNCHANGED << condition, subscribed, msgs, handled, delivered, read_log,
                  probeVars >>
  /\ UNCHANGED sessionVars
  /\ UNCHANGED entityVars

\* vakio.py 78-85: the payload decodes, the value is parsed and stored.
HandlerStore(h) ==
  /\ handler[h].pc = "decode"
  /\ DecodeOk(handler[h].payload)
  /\ condition' = StoreCondition(condition, handler[h].key,
                                 ParseValue(handler[h].payload))
  /\ handled' = [e \in EndpointSet |->
                   IF TopicOf(e) = handler[h].topic
                   THEN Bytes(handler[h].payload) ELSE handled[e]]
  /\ handler' = [handler EXCEPT ![h] = IdleHandler]
  /\ on_message_raised' = "none"
  /\ UNCHANGED << subscribed, msgs, delivered, read_log, probeVars >>
  /\ UNCHANGED sessionVars
  /\ UNCHANGED entityVars

\* on_message from its first line to its last, for the specifications that do
\* not look inside it.
OnMessage(endpoint, payload) ==
  LET topic == TopicOf(endpoint)
  IN  /\ loop_started
      /\ endpoint \in subscribed
      /\ msgs < MaxMessages
      /\ msgs' = msgs + 1
      /\ delivered' = delivered \cup {<<endpoint, payload>>}
      /\ subscribed' = Unsubscribe(subscribed, topic)
      /\ IF DecodeOk(payload)
         THEN /\ condition' = StoreCondition(condition, MessageKey(topic),
                                             ParseValue(payload))
              /\ handled' = [handled EXCEPT ![endpoint] = Bytes(payload)]
              /\ on_message_raised' = "none"
         ELSE /\ on_message_raised' = "UnicodeDecodeError"
              /\ UNCHANGED << condition, handled >>
      /\ UNCHANGED << handler, read_log, probeVars >>
      /\ UNCHANGED sessionVars
      /\ UNCHANGED entityVars

\* Coordinator.get_speed .. get_hud and the getter form of speed/gate/state/
\* workmode (vakio.py 201-249): a read of one cache entry.
Getter(endpoint) ==
  /\ read_log' = [endpoint |-> endpoint, value |-> condition[endpoint]]
  /\ UNCHANGED << handler, condition, subscribed, msgs, handled, delivered,
                  auxVars >>
  /\ UNCHANGED sessionVars
  /\ UNCHANGED entityVars

\* Coordinator.is_on (vakio.py 259-262, 237-239) called on its own: a read of
\* the cached state and a comparison.
IsOnCall ==
  /\ is_on_log' = [called |-> TRUE, state |-> condition[STATE_ENDPOINT],
                   ret |-> is_on(condition)]
  /\ UNCHANGED << read_log, on_message_raised, mapping >>
  /\ UNCHANGED cacheVars
  /\ UNCHANGED sessionVars
  /\ UNCHANGED entityVars

\* ------------------------------------------------ the entity's handlers
\* Each runs on the event loop without suspending: one step.
Apply(op, arg, o) ==
  /\ percentage' = o.percentage
  /\ preset_mode' = o.preset_mode
  /\ last' = [op |-> op, arg |-> arg, raised |-> o.raised,
              notified |-> o.notified, pubs |-> o.pubs,
              update_speed |-> o.update_speed]
  /\ UNCHANGED cacheVars
  /\ UNCHANGED sessionVars
  /\ UNCHANGED << read_log, auxVars >>

FanSetPercentage(p) ==
  Apply("set_percentage", PyInt(p),
        async_set_percentage(condition, percentage, preset_mode, p))

FanSetPresetMode(mode) ==
  Apply("set_preset_mode", PyStr(mode),
        async_set_preset_mode(percentage, preset_mode, mode))

FanTurnOn(arg) ==
  Apply("turn_on", arg, async_turn_on(percentage, preset_mode, arg))

FanTurnOff ==
  Apply("turn_off", None, async_turn_off(condition, percentage, preset_mode))

FanAsyncUpdate ==
  Apply("async_update", None,
        fan_async_update(condition, percentage, preset_mode, {}))

\* ------------------------------------------------ the speed mappings
\* fan.py 148-150 and 229-233: a percentage is turned into a named speed the
\* way async_set_percentage does, and the named speed back into a percentage
\* the way update_speed does.
SpeedRoundTrip(p) ==
  /\ LET speed == percentage_to_ordered_list_item(OPENAIR_SPEED_LIST, p)
     IN  mapping' =
           [applied |-> TRUE, percentage |-> p, speed |-> speed,
            back |-> ordered_list_item_to_percentage(OPENAIR_SPEED_LIST, speed)]
  /\ UNCHANGED << read_log, on_message_raised, is_on_log >>
  /\ UNCHANGED cacheVars
  /\ UNCHANGED sessionVars
  /\ UNCHANGED entityVars

\* -------------------------------------------------------- specifications
Login ==
  \/ LoginReturn
  \/ LoginStart
  \/ \E kind \in ConnectOutcomes : LoginConnect(kind)
  \/ SubAcquire("login")
  \/ LoginSubDone

Tick ==
  \/ TickStart
  \/ SubAcquire("tick")
  \/ TickSubDone

\* The session: login, the periodic callback, awaited setters, disconnect and
\* inbound messages.
NextSession ==
  \/ Login
  \/ Tick
  \/ \E r \in SetterInputs : SetterCall(r[1], r[2])
  \/ PubAcquire
  \/ PubDone
  \/ DiscCall
  \/ DiscAcquire
  \/ DiscDone
  \/ \E e \in FanEndpoints, b \in FewPayloads : OnMessage(e, b)
SpecSession == Init /\ [][NextSession]_vars

\* The cache: on_message line by line on the client's thread, against reads.
NextCache ==
  \/ Login
  \/ Tick
  \/ \E h \in Slots, e \in CacheEndpoints, b \in CachePayloads : Receive(h, e, b)
  \/ \E h \in Slots : HandlerUnsubscribe(h)
  \/ \E h \in Slots : HandlerDecodeError(h)
  \/ \E h \in Slots : HandlerStore(h)
  \/ \E e \in CacheEndpoints : Getter(e)
SpecCache == Init /\ [][NextCache]_vars

\* The entity: its handlers against the cache that inbound messages fill.
NextFan ==
  \/ Login
  \/ \E e \in FanEndpoints, b \in Payloads : OnMessage(e, b)
  \/ \E p \in PercentInputs : FanSetPercentage(p)
  \/ \E m \in PresetInputs : FanSetPresetMode(m)
  \/ \E a \in TurnOnInputs : FanTurnOn(a)
  \/ FanTurnOff
  \/ FanAsyncUpdate
  \/ IsOnCall
SpecFan == Init /\ [][NextFan]_vars

\* Every operation of the Coordinator and of the entity next to inbound
\* messages.
NextFrame ==
  \/ Login
  \/ Tick
  \/ \E r \in SetterInputs : SetterCall(r[1], r[2])
  \/ PubAcquire
  \/ PubDone
  \/ Getter(SPEED_ENDPOINT)
  \/ FanSetPercentage(50)
  \/ FanSetPresetMode(PRESET_MODS[2])
  \/ FanTurnOn(None)
  \/ FanTurnOff
  \/ FanAsyncUpdate
  \/ \E b \in FewPayloads : OnMessage(SPEED_ENDPOINT, b)
SpecFrame == Init /\ [][NextFrame]_vars

\* The integration left to itself: login, the callback that
\* async_setup_platform registers with async_track_time_interval (fan.py 64),
\* and inbound messages; no command is issued. The event loop runs every task
\* that can go on, and the timer fires again and again.
NextTimer ==
  \/ Login
  \/ Tick
  \/ \E e \in FanEndpoints, b \in TimerPayloads : OnMessage(e, b)
SpecTimer ==
  Init /\ [][NextTimer]_vars /\ WF_vars(Login) /\ WF_vars(Tick)

\* The speed mappings on their own, over every percentage.
NextMapping == \E p \in Percentages : SpeedRoundTrip(p)
SpecMapping == Init /\ [][NextMapping]_vars

Next ==
  NextSession \/ NextCache \/ NextFan \/ NextFrame \/ NextTimer \/ NextMapping
Spec == Init /\ [][Next]_vars

\* ------------------------------------------------------------ properties
\* The steps of the entity that run update_speed.
RunsUpdateSpeed ==
  \/ FanAsyncUpdate
  \/ FanTurnOff
  \/ \E p \in PercentInputs \ {0} : FanSetPercentage(p)

FirstBucket ==
  PyInt(ordered_list_item_to_percentage(OPENAIR_SPEED_LIST, OPENAIR_SPEED_LIST[1]))

\* C1: over login() calls made one after the other, the client connect and
\* the initial subscribe are each made exactly once, by the first call; every
\* later call returns True and changes nothing.
C1_LoginIdempotent ==
  /\ [](/\ log.connect_calls <= 1
        /\ log.login_subscribes <= 1
        /\ (log.login_returns >= 1 =>
              log.connect_calls = 1 /\ log.login_subscribes = 1)
        /\ (log.login_returns >= 2 => log.login_result = TRUE))
  /\ [][(log.login_returns >= 1 /\ log'.login_returns = log.login_returns + 1)
          => /\ log' = [log EXCEPT !.login_returns = @ + 1,
                                   !.login_result = TRUE]
             /\ UNCHANGED << condition, is_logged_in, subscribes_count,
                             paho_lock, loop_started, connected, subscribed,
                             published, pc, status, req, handler, percentage,
                             preset_mode >>]_vars
C1_Witness == log.login_returns >= 2 /\ log.connect_calls = 1

\* C2: setPercentage(0) publishes the off sentinel to the state endpoint and
\* publishes nothing to the speed endpoint.
C2_SetZeroTurnsOff ==
  (last.op = "set_percentage" /\ last.arg = PyInt(0)) =>
    /\ <<STATE_ENDPOINT, PyStr(OPENAIR_STATE_OFF)>> \in last.pubs
    /\ \A pub \in last.pubs : pub[1] # SPEED_ENDPOINT

\* C3: with the cached state off and a known entity percentage above zero,
\* one _async_update leaves the percentage 0 and notifies the host.
C3_OffZeroesPercentage ==
  [][(/\ FanAsyncUpdate
      /\ condition[STATE_ENDPOINT] = PyStr(OPENAIR_STATE_OFF)
      /\ ~IsNone(percentage)
      /\ percentage.i > 0)
       => (percentage' = PyInt(0) /\ last'.notified >= 1)]_vars

\* C4: with a cached integer speed outside 1..N, update_speed does not raise
\* and leaves the entity percentage unknown.
C4_OutOfRangeSpeedUnknown ==
  [][(/\ RunsUpdateSpeed
      /\ IsInt(condition[SPEED_ENDPOINT])
      /\ condition[SPEED_ENDPOINT].i \notin 1..Len(OPENAIR_SPEED_LIST))
       => /\ last'.update_speed.raised = "none"
          /\ last'.update_speed.percentage = None]_vars

\* C5: with the cache holding state on and speed 1 and an entity percentage
\* other than the first bucket's, one _async_update sets the percentage to
\* the first bucket's value and notifies the host exactly once.
C5_FirstBucket ==
  [][(/\ FanAsyncUpdate
      /\ condition[STATE_ENDPOINT] = PyStr(OPENAIR_STATE_ON)
      /\ condition[SPEED_ENDPOINT] = PyInt(1)
      /\ percentage # FirstBucket)
       => (percentage' = FirstBucket /\ last'.notified = 1)]_vars

\* C6: no command handler (setPercentage, turnOn, turnOff) raises, whatever
\* becomes of its publishes.
C6_CommandsDoNotRaise ==
  last.op \in {"set_percentage", "turn_on", "turn_off"} => last.raised = "none"

\* C7: connect() does not raise: it returns False when the client connect
\* failed, and returns True and starts the receive loop only when it succeeded.
C7_ConnectReturnsStatus ==
  log.connect_calls >= 1 =>
    /\ log.connect_raised = "none"
    /\ (log.connect_ret <=> log.connect_kind = "ok")
    /\ (loop_started => log.connect_kind = "ok")
C7_Witness ==
  log.connect_calls = 1 /\ log.connect_kind = "timeout" /\ ~log.connect_ret
  /\ ~loop_started /\ pc["login"] = "sub_wait"

\* C8: publish() returns True only when the client publish succeeded and
\* False when it failed, never raising, and the setter returns the same.
C8_PublishReportsFailure ==
  log.pub_rc # "none" =>
    /\ log.pub_raised = "none"
    /\ (log.pub_ret <=> log.pub_rc = "MQTT_ERR_SUCCESS")
    /\ log.setter_ret = log.pub_ret

\* C9: however the handling of messages for two different endpoints and the
\* reads interleave, every cache entry holds the value of the last message
\* handled for its endpoint (None before any), the cache has no other entry,
\* and a read returns None or a value delivered for the endpoint it reads.
ExpectedEntry(e) ==
  IF handled[e] = None THEN None ELSE ParseValue(handled[e].b)
C9_CacheNotCorrupted ==
  /\ DOMAIN condition = EndpointSet
  /\ \A e \in EndpointSet : condition[e] = ExpectedEntry(e)
  /\ read_log.endpoint # <<>> =>
       \/ read_log.value = None
       \/ \E m \in delivered :
            /\ m[1] = read_log.endpoint
            /\ DecodeOk(m[2])
            /\ read_log.value = ParseValue(m[2])
C9_Witness ==
  /\ handler[1].pc = "decode"
  /\ handler[2].pc = "idle"
  /\ msgs = 2
  /\ \E e \in EndpointSet :
       /\ TopicOf(e) # handler[1].topic
       /\ handled[e] # None
       /\ condition[e] = ParseValue(handled[e].b)
       /\ read_log = [endpoint |-> e, value |-> condition[e]]

\* C10: at most one of the client's subscribe, publish and disconnect calls
\* is in progress at any time.
InClientCall(t) == pc[t] \in {"sub_job", "pub_job", "disc_job"}
C10_ClientCallsExclusive ==
  Cardinality({t \in Tasks : InClientCall(t)}) <= 1
C10_Witness ==
  /\ pc["setter"] = "pub_job"
  /\ pc["tick"] = "sub_wait"
  /\ paho_lock = "setter"

\* C11: for every percentage p of 0..100, the percentage of the named speed
\* that p maps to differs from p by at most one bucket width, 100/N for a
\* list of N speeds (stated as N * |difference| <= 100).
C11_RoundTripWithinBucket ==
  mapping.applied =>
    LET d == mapping.back - mapping.percentage
        n == Len(OPENAIR_SPEED_LIST)
    IN  n * d <= 100 /\ n * (0 - d) <= 100
C11_Witness ==
  /\ mapping.applied
  /\ mapping.percentage > 0
  /\ mapping.back # mapping.percentage

\* C12: async_set_preset_mode with a mode that is not in the preset list
\* raises ValueError and does nothing else: the preset mode, the percentage,
\* the cache and the publishes stay as they were and no notification is made.
NotAPreset(mode) == \A k \in 1..Len(PRESET_MODS) : PRESET_MODS[k] # mode
C12_UnknownPresetRejected ==
  [][\A m \in PresetInputs :
       (NotAPreset(m) /\ FanSetPresetMode(m)) =>
         /\ last'.raised = "ValueError"
         /\ last'.notified = 0
         /\ last'.pubs = {}
         /\ UNCHANGED << percentage, preset_mode, condition, published >>]_vars
C12_Witness ==
  /\ last.op = "set_preset_mode"
  /\ NotAPreset(last.arg.s)
  /\ last.raised = "ValueError"
  /\ preset_mode = PyStr(PRESET_MODS[2])

\* C13: is_on() returns True exactly when the cached `state` is the on
\* sentinel, and False for None, the off sentinel, any integer and any other
\* string; the call leaves the cache as it was.
C13_IsOnExactlyOnSentinel ==
  /\ [](is_on_log.called =>
          (is_on_log.ret <=> is_on_log.state = PyStr(OPENAIR_STATE_ON)))
  /\ [][IsOnCall => UNCHANGED condition]_vars
C13_Witness ==
  /\ is_on_log.called
  /\ is_on_log.state = PyInt(1)
  /\ is_on_log.ret = FALSE

C15_TickReconcilesEntity ==
  [][\A k \in 1..Len(OPENAIR_SPEED_LIST) :
       (/\ TickSubDone
        /\ condition[STATE_ENDPOINT] = PyStr(OPENAIR_STATE_ON)
        /\ condition[SPEED_ENDPOINT] = PyInt(OPENAIR_SPEED_LIST[k])) =>
         percentage' =
           PyInt(ordered_list_item_to_percentage(OPENAIR_SPEED_LIST,
                                                 OPENAIR_SPEED_LIST[k]))]_vars

\* C16: every command handler called with valid arguments (any percentage,
\* a mode of the preset list) ends with a schedule_update_ha_state call.
ValidCommand ==
  \/ last.op \in {"set_percentage", "turn_on", "turn_off"}
  \/ last.op = "set_preset_mode" /\ ~NotAPreset(last.arg.s)
C16_CommandsNotify == ValidCommand => last.notified >= 1

\* C17: handling a message on an endpoint's topic removes the subscription to
\* that topic and to no other; an endpoint becomes subscribed again only at
\* the end of a subscribe() call, which subscribes all six endpoints at once;
\* and an endpoint unsubscribed by a handled message is subscribed again by a
\* later tick (as long as the bound on subscribe() calls leaves one).
TickLeft == subscribes_count < MaxSubscribes \/ pc["tick"] # "idle"
C17_SubscriptionsRenewed ==
  /\ [][\A e \in FanEndpoints, b \in TimerPayloads :
         OnMessage(e, b) => subscribed' = subscribed \ {e}]_vars
  /\ [][(\E e \in EndpointSet : e \notin subscribed /\ e \in subscribed') =>
         /\ LoginSubDone \/ TickSubDone
         /\ subscribed' = EndpointSet]_vars
  /\ \A e \in FanEndpoints :
       (handled[e] # None /\ e \notin subscribed /\ TickLeft)
         ~> (e \in subscribed)
C17_Witness ==
  /\ handled[SPEED_ENDPOINT] # None
  /\ pc["tick"] = "idle"
  /\ subscribes_count = MaxSubscribes
  /\ subscribed = EndpointSet

\* C18: once the login() call that ran the connect path has returned,
\* is_logged_in is set whether the connect succeeded or failed and the
\* initial subscribe was entered; that call returned the connect status, True
\* exactly when the client connect went through; every later call returns
\* True, after a failed connect too, and makes no further connect.
C18_LoggedInAfterAnyConnect ==
  log.login_returns >= 1 =>
    /\ is_logged_in
    /\ log.login_subscribes = 1
    /\ log.connect_calls = 1
    /\ log.connect_ret = (log.connect_kind = "ok")
    /\ (log.login_returns = 1 => log.login_result = log.connect_ret)
    /\ (log.login_returns >= 2 => log.login_result = TRUE)
C18_Witness ==
  /\ log.login_returns >= 2
  /\ log.connect_kind = "timeout"
  /\ log.connect_ret = FALSE
  /\ log.login_result = TRUE
  /\ log.connect_calls = 1
  /\ is_logged_in

\* C19: the cache is written by the inbound-message handler only: a step of
\* login, subscribe, the periodic tick, a getter, a setter and its
\* publish, or a handler of the entity leaves all six entries as they were.
C19_OnlyMessagesWriteCache ==
  [][condition' # condition =>
       \E b \in FewPayloads : OnMessage(SPEED_ENDPOINT, b)]_vars
C19_Witness ==
  /\ <<STATE_ENDPOINT, PyStr(OPENAIR_STATE_OFF)>> \in published
  /\ condition[STATE_ENDPOINT] = None
  /\ last.op = "turn_off"
  /\ read_log.endpoint = SPEED_ENDPOINT
  /\ condition[SPEED_ENDPOINT] = PyInt(1)

\* C20: on_message ends without an exception whatever the payload, and when
\* it ends the cache entry of the endpoint named by the last segment of the
\* topic holds the integer of a payload that parses as one and the payload as
\* a string otherwise.
C20_HandlerNeverRaises ==
  [][\A h \in Slots :
       (handler[h].pc = "decode" /\ handler'[h].pc = "idle") =>
         /\ on_message_raised' = "none"
         /\ condition'[LastSegment(handler[h].topic)] =
              ParseValue(handler[h].payload)]_vars

\* C21: when a run of _async_update returns without an exception, the entity
\* percentage agrees with the cached state: with is_on() true it is the
\* percentage of a named speed, above zero; with is_on() false it is 0 or
\* unknown.
BucketValues ==
  {PyInt(ordered_list_item_to_percentage(OPENAIR_SPEED_LIST,
                                         OPENAIR_SPEED_LIST[k])) :
     k \in 1..Len(OPENAIR_SPEED_LIST)}
C21_PostTickConsistent ==
  [][(FanAsyncUpdate /\ last'.raised = "none") =>
       IF is_on(condition')
       THEN percentage' \in BucketValues /\ percentage'.i > 0
       ELSE percentage' \in {None, PyInt(0)}]_vars
\* The case of C21: a run of _async_update that returned.
C21_TickReturned == last.op = "async_update" /\ last.raised = "none"

\* C22: when async_set_percentage(p) with p > 0 returns without an exception,
\* the entity percentage comes from the cache alone: unknown when the cached
\* speed is absent, zero or above the length of the speed list, the
\* percentage of the cached speed when that is an index of the list; and a
\* call from the same entity and cache with another p > 0 that returns leaves
\* the same percentage.
C22_PercentageFromCacheAlone ==
  [][\A p \in PercentInputs \ {0} :
       (FanSetPercentage(p) /\ last'.raised = "none") =>
         LET speed == condition[SPEED_ENDPOINT]
             n == Len(OPENAIR_SPEED_LIST)
         IN  /\ (IsNone(speed) \/ (IsInt(speed) /\ (speed.i = 0 \/ speed.i > n)))
                  => percentage' = None
             /\ (IsInt(speed) /\ speed.i \in 1..n) =>
                  percentage' =
                    PyInt(ordered_list_item_to_percentage(
                            OPENAIR_SPEED_LIST, OPENAIR_SPEED_LIST[speed.i]))
             /\ \A q \in PercentInputs \ {0} :
                  LET o == async_set_percentage(condition, percentage,
                                                preset_mode, q)
                  IN  o.raised = "none" => percentage' = o.percentage]_vars
\* The case of C22: an async_set_percentage(p), p > 0, that returned.
C22_SetPercentageReturned ==
  /\ last.op = "set_percentage"
  /\ last.arg # PyInt(0)
  /\ last.raised = "none"
====
